---- MODULE Spec2Model ----
(***************************************************************************)
(* The conditional compilation step of setup.py: class build_cythonized,   *)
(* an override of the distutils "build" command.  The model holds the      *)
(* distribution's two fields the step touches (cmdclass, ext_modules) as   *)
(* references into a heap of Python objects, the step instance's fields    *)
(* (stored_options, should_cythonize), the environment variable, the       *)
(* module selector list, the files on disk and the log.                    *)
(*                                                                         *)
(* Strings that the code rewrites (dotted module names, file paths) are    *)
(* sequences of tokens: 'pkgB.*' is <<"pkgB", ".", "*">>.                  *)
(***************************************************************************)
EXTENDS Integers, Sequences, FiniteSets, TLC

VARIABLES
    env,                \* os.environ: value of CYTHONIZE_NLTK
    envChanges,         \* how often the environment changed the variable
    setup_reqs,         \* module level list setup_reqs
    MODULES_TO_COMPILE, \* module level list of selectors
    disk,               \* the source files that exist
    heap,               \* Python objects (dicts and lists), by reference
    distribution,       \* self.distribution: [cmdclass, ext_modules] references
    stored_options,     \* self.stored_options
    should_cythonize,   \* self.should_cythonize
    pc,                 \* where the invocation stands
    raised,             \* the exception that left the step, "none" if none
    log,                \* messages given to self.announce
    cythonize_calls,    \* argument lists cythonize() was called with
    trace,              \* what the step did in this run, in order
    runs,               \* number of the current run of the step
    pre,                \* the two fields right before finalize_options() began
    flags,              \* should_cythonize of each run so far
    afterFirst,         \* the two fields' values when the first run was done
    compiled,           \* the reference of the list cythonize() returned in this run
    envAtInit           \* the value CYTHONIZE_NLTK had when the step was constructed

vars == <<env, envChanges, setup_reqs, MODULES_TO_COMPILE, disk, heap,
          distribution, stored_options, should_cythonize, pc, raised, log,
          cythonize_calls, trace, runs, pre, flags, afterFirst, compiled,
                   envAtInit>>

(***************************************************************************)
(* Bounds of the model.                                                    *)
(***************************************************************************)
MaxSelectors == 2
MaxRuns == 2
MaxEnvChanges == 1

(***************************************************************************)
(* Python values.                                                          *)
(***************************************************************************)
\* the reference None
None == 0

\* os.path.sep
sep == "/"

\* the value the environment variable is compared with
TRUTHY == "true"

\* values the environment can give CYTHONIZE_NLTK ("unset": os.getenv gives None)
EnvValues == {"true", "True", "unset"}

\* the requirement appended to setup_reqs
CYTHON_REQ == <<"Cython >= 0.28.5">>

FIELDS == {"cmdclass", "ext_modules"}

\* bool(x) of a dict or list reference: None and the empty container are falsy
Truthy(h, ref) == ref # None /\ Len(h[ref]) > 0

\* the value behind a reference, None told apart from the empty container
Value(h, ref) ==
    IF ref = None THEN [none |-> TRUE, items |-> <<>>]
    ELSE [none |-> FALSE, items |-> h[ref]]

\* the values of the distribution's two fields
Values(h, d) == [f \in FIELDS |-> Value(h, d[f])]

(***************************************************************************)
(* Selectors, paths and the files of the bounded universe.                 *)
(***************************************************************************)
Selectors == { <<"pkgA", ".", "mod1">>, <<"pkgB", ".", "*">> }

\* sequences over S of length at most n
SeqsUpTo(S, n) == UNION { [1..k -> S] : k \in 0..n }

\* every file that may exist, in sorted order (glob results are sorted)
AllFiles ==
    << <<"pkgA", "/", "mod1", ".py">>,
       <<"pkgB", "/", "__init__", ".py">>,
       <<"pkgB", "/", "mod2", ".py">>,
       <<"pkgB", "/", "mod3", ".py">> >>

FileSet == { AllFiles[i] : i \in 1..Len(AllFiles) }

\* name.replace('.', os.path.sep)
replace(name, old, new) ==
    [i \in 1..Len(name) |-> IF name[i] = old THEN new ELSE name[i]]

\* PathOf without the suffix
PathOf_no_suffix(name) == replace(name, ".", sep)

\* name.replace('.', os.path.sep) + '.py'
PathOf(name) == replace(name, ".", sep) \o <<".py">>

\* files = [name.replace('.', os.path.sep) + '.py' for name in MODULES_TO_COMPILE]
FilesOf(names) == [i \in 1..Len(names) |-> PathOf(names[i])]

\* the number the progress message reports: len(files)
AnnouncedCount(files) == Len(files)

(***************************************************************************)
(* The compile collaborator, Cython.Build.cythonize(files, exclude=...):   *)
(* each pattern is expanded to the existing files it matches, in sorted    *)
(* order, leaving out the excluded package initializers and the files      *)
(* already seen.  A pattern without wildcard that matches no file is a     *)
(* configuration error; a wildcard that matches nothing gives no file.     *)
(***************************************************************************)
IsGlob(p) == \E i \in 1..Len(p) : p[i] = "*"

Match(p, f) ==
    /\ Len(p) = Len(f)
    /\ \A i \in 1..Len(p) : p[i] = "*" \/ p[i] = f[i]

\* exclude=['**/__init__.py']
Excluded(f) == f[Len(f) - 1] = "__init__"

Matches(p, files_on_disk) ==
    SelectSeq(AllFiles, LAMBDA f : f \in files_on_disk /\ Match(p, f) /\ ~Excluded(f))

InSeq(x, s) == \E i \in 1..Len(s) : s[i] = x

RECURSIVE Expand(_, _, _, _)
Expand(files, i, files_on_disk, acc) ==
    IF i > Len(files) THEN acc
    ELSE Expand(files, i + 1, files_on_disk,
                acc \o SelectSeq(Matches(files[i], files_on_disk),
                                 LAMBDA f : ~InSeq(f, acc)))

\* the patterns of the call that name one module and resolve to no file
Unresolvable(files, files_on_disk) ==
    { i \in 1..Len(files) :
        ~IsGlob(files[i]) /\ Matches(files[i], files_on_disk) = <<>> }

\* the outcome of cythonize(files, ...): the descriptors or the error raised
cythonize(files, files_on_disk) ==
    IF Unresolvable(files, files_on_disk) # {}
    THEN [error |-> "ConfigError", exts |-> <<>>]
    ELSE [error |-> "none", exts |-> Expand(files, 1, files_on_disk, <<>>)]

(***************************************************************************)
(* What the inherited command (distutils build) may do to the command      *)
(* table while it runs: the table is changed in place, the field of the    *)
(* distribution is not assigned.                                           *)
(***************************************************************************)
InPlaceOps == {"none", "add", "remove"}

InPlace(h, ref, op) ==
    IF ref = None \/ op = "none" THEN h
    ELSE IF op = "add"
    THEN IF InSeq(<<"build_ext", "build_ext">>, h[ref]) THEN h
         ELSE [h EXCEPT ![ref] = Append(@, <<"build_ext", "build_ext">>)]
    ELSE [h EXCEPT ![ref] = SelectSeq(@, LAMBDA e : e[1] # "build")]

(***************************************************************************)
(* Initial state: the module is being loaded, line 52 not yet reached.     *)
(***************************************************************************)
\* cmdclass={'build': build_cythonized}
CMDCLASS == << <<"build", "build_cythonized">> >>

\* an extension list a distribution may hold before the step
EXT_MODULES == << <<"legacy_ext">> >>

InitKinds == {"absent", "empty", "populated"}

\* the heap and the two references of a distribution whose fields are of kind c, e
InitHeap(c, e) ==
    (IF c = "absent" THEN <<>> ELSE IF c = "empty" THEN << <<>> >> ELSE <<CMDCLASS>>)
    \o (IF e = "absent" THEN <<>> ELSE IF e = "empty" THEN << <<>> >> ELSE <<EXT_MODULES>>)

InitDistribution(c, e) ==
    [cmdclass |-> IF c = "absent" THEN None ELSE 1,
     ext_modules |-> IF e = "absent" THEN None
                     ELSE IF c = "absent" THEN 1 ELSE 2]

\* the contents of the packages on disk
Disks ==
    { a \cup b :
        a \in { {}, {AllFiles[1]} },
        b \in { {}, {AllFiles[2], AllFiles[3]}, {AllFiles[2], AllFiles[3], AllFiles[4]} } }

NoValues == [f \in FIELDS |-> [none |-> TRUE, items |-> <<>>]]

Init ==
    /\ env \in EnvValues
    /\ envChanges = 0
    /\ setup_reqs = <<>>
    /\ MODULES_TO_COMPILE \in SeqsUpTo(Selectors, MaxSelectors)
    /\ disk \in Disks
    /\ \E c \in InitKinds, e \in InitKinds :
        /\ heap = InitHeap(c, e)
        /\ distribution = InitDistribution(c, e)
    /\ stored_options = <<>>
    /\ should_cythonize = FALSE
    /\ pc = "load"
    /\ raised = "none"
    /\ log = <<>>
    /\ cythonize_calls = <<>>
    /\ trace = <<>>
    /\ runs = 0
    /\ pre = [refs |-> distribution, vals |-> Values(heap, distribution)]
    /\ flags = <<>>
    /\ afterFirst = NoValues
    /\ compiled = None
    /\ envAtInit = "unset"

(***************************************************************************)
(* The environment.                                                        *)
(***************************************************************************)
\* getenv_is_true taking every value that is set for true
getenv_is_true_any_set(e) == e # "unset"

\* os.getenv('CYTHONIZE_NLTK') == 'true'
getenv_is_true(e) == e = TRUTHY

\* somebody sets or unsets CYTHONIZE_NLTK
EnvChange ==
    /\ envChanges < MaxEnvChanges
    /\ pc \notin {"Failed"}
    /\ \E v \in EnvValues \ {env} : env' = v
    /\ envChanges' = envChanges + 1
    /\ UNCHANGED <<setup_reqs, MODULES_TO_COMPILE, disk, heap, distribution,
                   stored_options, should_cythonize, pc, raised, log,
                   cythonize_calls, trace, runs, pre, flags, afterFirst, compiled,
                   envAtInit>>

(***************************************************************************)
(* Module level, lines 52-55.                                              *)
(***************************************************************************)
module_level ==
    /\ pc = "load"
    /\ setup_reqs' = IF getenv_is_true(env) THEN CYTHON_REQ ELSE <<>>
    /\ pc' = "loaded"
    /\ UNCHANGED <<env, envChanges, MODULES_TO_COMPILE, disk, heap, distribution,
                   stored_options, should_cythonize, raised, log,
                   cythonize_calls, trace, runs, pre, flags, afterFirst, compiled,
                   envAtInit>>

(***************************************************************************)
(* build_cythonized.__init__, lines 89-92: the framework constructs the    *)
(* step, for the first run or for a chained run after a run that is done.  *)
(***************************************************************************)
build_cythonized_init ==
    /\ \/ pc = "loaded"
       \/ pc = "Done" /\ runs < MaxRuns
    /\ stored_options' = <<>>
    /\ should_cythonize' = getenv_is_true(env)
    /\ flags' = Append(flags, getenv_is_true(env))
    /\ runs' = runs + 1
    /\ trace' = <<>>
    /\ compiled' = None
    /\ envAtInit' = env
    /\ pc' = "Idle"
    /\ UNCHANGED <<env, envChanges, setup_reqs, MODULES_TO_COMPILE, disk, heap,
                   distribution, raised, log, cythonize_calls, pre, afterFirst>>

(***************************************************************************)
(* build_cythonized.finalize_options, lines 94-109.                        *)
(***************************************************************************)
\* update that stores nothing
update_forgets(old, new) == old

\* dict.update: the entries of new replace or extend those of old
update(old, new) ==
    [k \in DOMAIN old \cup DOMAIN new |-> IF k \in DOMAIN new THEN new[k] ELSE old[k]]

\* StoredRef without the copy: the snapshot keeps the distribution's own object
StoredRef_alias(h, ref, fresh) == IF Truthy(h, ref) THEN ref ELSE None

\* x.copy() if x else None (lines 99, 100): the reference stored for a field,
\* fresh being the reference of the copy
StoredRef(h, ref, fresh) == IF Truthy(h, ref) THEN fresh ELSE None

\* the heap once the copy for a field is made, if one is made
HeapWithCopy(h, ref) == IF Truthy(h, ref) THEN Append(h, h[ref]) ELSE h

\* lines 98-101: the entries written to stored_options and the heap with the copies
Snapshot(h, d) ==
    LET h1 == HeapWithCopy(h, d.cmdclass)
        h2 == HeapWithCopy(h1, d.ext_modules)
    IN  [heap |-> h2,
         entries |-> [cmdclass |-> StoredRef(h, d.cmdclass, Len(h1)),
                      ext_modules |-> StoredRef(h1, d.ext_modules, Len(h2))]]

\* announce that drops the message
announce_silent(l, run, files) == l

\* line 107: self.announce("Compiling %d modules ..." % len(files), level=INFO)
announce(l, run, files) ==
    Append(l, [run |-> run, count |-> AnnouncedCount(files), level |-> "INFO"])

\* finalize_options that does not test the flag
finalize_options_unguarded ==
    /\ pc = "Idle"
    /\ pre' = [refs |-> distribution, vals |-> Values(heap, distribution)]
    /\ LET snap == Snapshot(heap, distribution)
       IN  /\ heap' = snap.heap
           /\ stored_options' = update(stored_options, snap.entries)
           /\ log' = announce(log, runs, FilesOf(MODULES_TO_COMPILE))
           /\ trace' = trace \o <<"snapshot", "announce">>
           /\ pc' = "Compiling"
    /\ UNCHANGED <<env, envChanges, setup_reqs, MODULES_TO_COMPILE, disk,
                   distribution, should_cythonize, raised, cythonize_calls,
                   runs, flags, afterFirst, compiled,
                   envAtInit>>

\* finalize_options that writes the paths into the selector list itself
finalize_options_rewrites ==
    /\ pc = "Idle"
    /\ pre' = [refs |-> distribution, vals |-> Values(heap, distribution)]
    /\ IF should_cythonize
       THEN LET snap == Snapshot(heap, distribution)
            IN  /\ heap' = snap.heap
                /\ stored_options' = update(stored_options, snap.entries)
                /\ MODULES_TO_COMPILE' = FilesOf(MODULES_TO_COMPILE)
                /\ log' = announce(log, runs, FilesOf(MODULES_TO_COMPILE))
                /\ trace' = trace \o <<"snapshot", "announce">>
                /\ pc' = "Compiling"
       ELSE /\ pc' = "InheritedConfig"
            /\ UNCHANGED <<heap, stored_options, log, trace, MODULES_TO_COMPILE>>
    /\ UNCHANGED <<env, envChanges, setup_reqs, disk,
                   distribution, should_cythonize, raised, cythonize_calls,
                   runs, flags, afterFirst, compiled, envAtInit>>

\* lines 95-107: the flag is tested; with the flag set the snapshot is stored,
\* the file list built and the progress message announced
finalize_options ==
    /\ pc = "Idle"
    /\ pre' = [refs |-> distribution, vals |-> Values(heap, distribution)]
    /\ IF should_cythonize
       THEN LET snap == Snapshot(heap, distribution)
            IN  /\ heap' = snap.heap
                /\ stored_options' = update(stored_options, snap.entries)
                /\ log' = announce(log, runs, FilesOf(MODULES_TO_COMPILE))
                /\ trace' = trace \o <<"snapshot", "announce">>
                /\ pc' = "Compiling"
       ELSE /\ pc' = "InheritedConfig"
            /\ UNCHANGED <<heap, stored_options, log, trace>>
    /\ UNCHANGED <<env, envChanges, setup_reqs, MODULES_TO_COMPILE, disk,
                   distribution, should_cythonize, raised, cythonize_calls,
                   runs, flags, afterFirst, compiled,
                   envAtInit>>

\* cythonize_raises with ext_modules cleared before the call
cythonize_raises_after_clearing(error) ==
    /\ raised' = error
    /\ pc' = "Failed"
    /\ trace' = Append(trace, "compile_raised")
    /\ heap' = Append(heap, <<>>)
    /\ distribution' = [distribution EXCEPT !.ext_modules = Len(heap) + 1]
    /\ UNCHANGED compiled

\* line 108, cythonize() raising: nothing is assigned, the error leaves the step
cythonize_raises(error) ==
    /\ raised' = error
    /\ pc' = "Failed"
    /\ trace' = Append(trace, "compile_raised")
    /\ UNCHANGED <<heap, distribution, compiled>>

\* cythonize_returns that extends the list the distribution holds
cythonize_returns_extends(exts) ==
    /\ heap' = Append(heap, Value(heap, distribution.ext_modules).items \o exts)
    /\ distribution' = [distribution EXCEPT !.ext_modules = Len(heap) + 1]
    /\ compiled' = Len(heap) + 1
    /\ trace' = Append(trace, "write_ext_modules")
    /\ pc' = "InheritedConfig"
    /\ UNCHANGED raised

\* line 108, cythonize() returning: the descriptors become ext_modules
cythonize_returns(exts) ==
    /\ heap' = Append(heap, exts)
    /\ distribution' = [distribution EXCEPT !.ext_modules = Len(heap) + 1]
    /\ compiled' = Len(heap) + 1
    /\ trace' = Append(trace, "write_ext_modules")
    /\ pc' = "InheritedConfig"
    /\ UNCHANGED raised

\* line 108: self.distribution.ext_modules = cythonize(files, ...)
call_cythonize ==
    /\ pc = "Compiling"
    /\ LET files == FilesOf(MODULES_TO_COMPILE)
           r == cythonize(files, disk)
       IN  /\ cythonize_calls' = Append(cythonize_calls, files)
           /\ IF r.error # "none"
              THEN cythonize_raises(r.error)
              ELSE \/ cythonize_returns(r.exts)
                   \/ r.exts # <<>> /\ cythonize_raises("CompileError")
    /\ UNCHANGED <<env, envChanges, setup_reqs, MODULES_TO_COMPILE, disk,
                   stored_options, should_cythonize, log, runs, pre, flags,
                   afterFirst, envAtInit>>

\* line 109: super().finalize_options()
build_orig_finalize_options ==
    /\ pc = "InheritedConfig"
    /\ \E op \in InPlaceOps, ok \in BOOLEAN :
        /\ heap' = InPlace(heap, distribution.cmdclass, op)
        /\ IF ok
           THEN /\ pc' = "Executing"
                /\ trace' = Append(trace, "config_done")
                /\ UNCHANGED raised
           ELSE /\ pc' = "Failed"
                /\ trace' = Append(trace, "config_raised")
                /\ raised' = "OptionError"
    /\ UNCHANGED <<env, envChanges, setup_reqs, MODULES_TO_COMPILE, disk,
                   distribution, stored_options, should_cythonize, log,
                   cythonize_calls, runs, pre, flags, afterFirst, compiled,
                   envAtInit>>

(***************************************************************************)
(* build_cythonized.run, lines 111-117.                                    *)
(***************************************************************************)
\* line 112: super().run()
build_orig_run ==
    /\ pc = "Executing"
    /\ \E op \in InPlaceOps, ok \in BOOLEAN :
        /\ heap' = InPlace(heap, distribution.cmdclass, op)
        /\ IF ok
           THEN /\ pc' = "Restoring"
                /\ trace' = Append(trace, "exec_done")
                /\ UNCHANGED raised
           ELSE /\ pc' = "Failed"
                /\ trace' = Append(trace, "exec_raised")
                /\ raised' = "ExecError"
    /\ UNCHANGED <<env, envChanges, setup_reqs, MODULES_TO_COMPILE, disk,
                   distribution, stored_options, should_cythonize, log,
                   cythonize_calls, runs, pre, flags, afterFirst, compiled,
                   envAtInit>>

\* lines 116, 117: the two fields after the write-back
Restored(d, stored) ==
    [cmdclass |-> stored["cmdclass"], ext_modules |-> stored["ext_modules"]]

\* run_restore without the write-back
run_restore_forgets ==
    /\ pc = "Restoring"
    /\ pc' = "Done"
    /\ afterFirst' = IF runs = 1 THEN Values(heap, distribution) ELSE afterFirst
    /\ UNCHANGED <<env, envChanges, setup_reqs, MODULES_TO_COMPILE, disk, heap,
                   distribution, stored_options, should_cythonize, raised, log,
                   cythonize_calls, trace, runs, pre, flags, compiled,
                   envAtInit>>

\* lines 113-117: once super().run() has returned
run_restore ==
    /\ pc = "Restoring"
    /\ IF should_cythonize
       THEN IF FIELDS \subseteq DOMAIN stored_options
            THEN /\ distribution' = Restored(distribution, stored_options)
                 /\ trace' = Append(trace, "restore")
                 /\ pc' = "Done"
                 /\ UNCHANGED raised
            ELSE /\ raised' = "KeyError"
                 /\ pc' = "Failed"
                 /\ UNCHANGED <<distribution, trace>>
       ELSE /\ pc' = "Done"
            /\ UNCHANGED <<distribution, trace, raised>>
    /\ afterFirst' = IF runs = 1 /\ pc' = "Done"
                     THEN Values(heap, distribution') ELSE afterFirst
    /\ UNCHANGED <<env, envChanges, setup_reqs, MODULES_TO_COMPILE, disk, heap,
                   stored_options, should_cythonize, log, cythonize_calls,
                   runs, pre, flags, compiled,
                   envAtInit>>

(***************************************************************************)
(* The specification.                                                      *)
(***************************************************************************)
Next ==
    \/ EnvChange
    \/ module_level
    \/ build_cythonized_init
    \/ finalize_options
    \/ call_cythonize
    \/ build_orig_finalize_options
    \/ build_orig_run
    \/ run_restore

Spec == Init /\ [][Next]_vars

(***************************************************************************)
(* Properties.                                                             *)
(***************************************************************************)
\* finalize_options() of the current run has begun
InRun == pc \in {"Compiling", "InheritedConfig", "Executing", "Restoring", "Done", "Failed"}

Count(s, x) == Cardinality({ i \in 1..Len(s) : s[i] = x })

\* the messages announced in a run
Messages(run) == SelectSeq(log, LAMBDA m : m.run = run)

\* the flag was true in every run so far
AllFlagsTrue == \A i \in 1..Len(flags) : flags[i]

\* C1: with the flag true and build_orig.run returning normally, cmdclass and
\* ext_modules are after run() equal by value to what they were right before
\* finalize_options() began, whatever they were (populated, empty or absent).
C1_FlagOnRestoresByValue ==
    (pc = "Done" /\ should_cythonize) => Values(heap, distribution) = pre.vals

\* C2: with the flag false no snapshot is stored and the step assigns neither
\* cmdclass nor ext_modules: stored_options stays empty and both fields stay
\* the references they were, from Idle to Done.
C2_FlagOffNoSnapshotNoWrite ==
    (runs >= 1 /\ ~should_cythonize) =>
        /\ stored_options = <<>>
        /\ \A i \in 1..Len(trace) :
             trace[i] \notin {"snapshot", "announce", "write_ext_modules", "restore"}
        /\ compiled = None
        /\ InRun => /\ distribution = pre.refs
                    /\ Value(heap, distribution.ext_modules) = pre.vals.ext_modules

C2_Witness ==
    /\ pc = "Done"
    /\ ~should_cythonize
    /\ pre.vals.cmdclass.items # <<>>
    /\ pre.vals.ext_modules.items # <<>>

\* C3: with the flag true, no run ends with an execution error while
\* ext_modules still holds the compiled descriptors (the write-back runs
\* before the error leaves run()).
C3_RestoredWhenExecutionRaises ==
    ~ ( /\ pc = "Failed"
        /\ raised = "ExecError"
        /\ should_cythonize
        /\ compiled # None
        /\ distribution.ext_modules = compiled )

\* C4: with the flag true the snapshot is taken before the first write to
\* ext_modules, the write-back happens at most once and only after the
\* inherited execution has returned, and exactly once in a run that is done.
C4_SnapshotWriteRestoreOrder ==
    should_cythonize =>
        /\ \A i \in 1..Len(trace) :
             trace[i] = "write_ext_modules" =>
                /\ \E j \in 1..(i - 1) : trace[j] = "snapshot"
                /\ FIELDS \subseteq DOMAIN stored_options
        /\ \A i \in 1..Len(trace) :
             trace[i] = "restore" => \E j \in 1..(i - 1) : trace[j] = "exec_done"
        /\ Count(trace, "restore") <= 1
        /\ pc \in {"Compiling", "InheritedConfig", "Executing", "Restoring"} =>
             Count(trace, "restore") = 0
        /\ pc \in {"InheritedConfig", "Executing", "Restoring"} =>
             distribution.ext_modules = compiled
        /\ pc = "Done" =>
             /\ Count(trace, "restore") = 1
             /\ distribution = Restored(distribution, stored_options)

C4_Witness ==
    /\ pc = "Done"
    /\ should_cythonize
    /\ Count(trace, "write_ext_modules") = 1
    /\ Count(trace, "restore") = 1

\* C5: a second run of the step with the flag true both times leaves cmdclass
\* and ext_modules equal by value to what the first run left.
C5_SecondRunSameAsFirst ==
    (pc = "Done" /\ runs >= 2 /\ AllFlagsTrue) =>
        Values(heap, distribution) = afterFirst

C5_Witness ==
    /\ pc = "Done"
    /\ runs = 2
    /\ AllFlagsTrue
    /\ afterFirst.cmdclass.items # <<>>
    /\ afterFirst.ext_modules.items # <<>>

\* C6, as claimed: after run() with the flag true both fields are the very
\* objects the distribution held before finalize_options().
C6_SameObjectsRestored ==
    (pc = "Done" /\ should_cythonize) => distribution = pre.refs

\* C6, amended: after run() with the flag true each field is the object the
\* snapshot holds: for a field that was populated the copy made at snapshot
\* time, another object than the original with the original's entries; for a
\* field that was empty or None, None.
C6_SnapshotObjectsRestored ==
    (pc = "Done" /\ should_cythonize) =>
        \A f \in FIELDS :
            /\ distribution[f] = stored_options[f]
            /\ IF pre.vals[f].items # <<>>
               THEN /\ distribution[f] # None
                    /\ distribution[f] # pre.refs[f]
                    /\ heap[distribution[f]] = pre.vals[f].items
               ELSE distribution[f] = None

C6_Witness ==
    /\ pc = "Done"
    /\ should_cythonize
    /\ pre.vals.cmdclass.items # <<>>
    /\ distribution.cmdclass # pre.refs.cmdclass

\* C7: a field that is missing or empty when the snapshot is taken is stored
\* in the snapshot as an empty value, not as None.
C7_EmptyStoredAsEmpty ==
    (InRun /\ should_cythonize) =>
        \A f \in FIELDS :
            pre.vals[f].items = <<>> =>
                /\ f \in DOMAIN stored_options
                /\ stored_options[f] # None
                /\ heap[stored_options[f]] = <<>>

C9_CountIsResolvedFiles ==
    compiled # None =>
        \A i \in 1..Len(log) :
            log[i].run = runs => log[i].count = Len(heap[compiled])

\* C10: when cythonize() raises a configuration error, that error leaves
\* finalize_options() as it is and cmdclass and ext_modules still are what
\* they were before the run: nothing was assigned.
C10_ConfigErrorBeforeMutation ==
    (pc = "Failed" /\ raised = "ConfigError") =>
        /\ raised = cythonize(FilesOf(MODULES_TO_COMPILE), disk).error
        /\ distribution = pre.refs
        /\ Values(heap, distribution) = pre.vals
        /\ compiled = None

C10_Witness ==
    /\ pc = "Failed"
    /\ raised = "ConfigError"
    /\ pre.vals.ext_modules.items # <<>>
    /\ pre.vals.cmdclass.items # <<>>

\* C11: the flag is resolved when the step is constructed, true exactly when
\* CYTHONIZE_NLTK is "true" then; what finalize_options() and run() decide
\* follows the value at construction, whatever the variable is afterwards.
C11_FlagResolvedAtConstruction ==
    runs >= 1 =>
        /\ should_cythonize = (envAtInit = "true")
        /\ InRun => ((Count(trace, "snapshot") = 1) = (envAtInit = "true"))
        /\ pc = "Done" => ((Count(trace, "restore") = 1) = (envAtInit = "true"))

C11_Witness ==
    /\ pc = "Done"
    /\ envAtInit = "true"
    /\ env = "unset"
    /\ Count(trace, "snapshot") = 1
    /\ Count(trace, "restore") = 1

\* C12: with the flag true, when the inherited finalize_options() raises
\* after ext_modules was replaced by the compiled descriptors, the snapshot
\* is restored before the error leaves the step: ext_modules does not stay
\* the compiled list.
C12_RestoredWhenConfigurationRaises ==
    ~ ( /\ pc = "Failed"
        /\ raised = "OptionError"
        /\ should_cythonize
        /\ compiled # None
        /\ distribution.ext_modules = compiled )

\* the runs so far that were constructed with the flag true
FlaggedRuns == { i \in 1..Len(flags) : flags[i] }

\* cythonize() has been called in the current run
CalledInRun ==
    /\ should_cythonize
    /\ Count(trace, "write_ext_modules") + Count(trace, "compile_raised") = 1

\* C13: with the flag true and cythonize() returned, from then until the
\* write-back ext_modules is exactly the list cythonize() returned, and
\* cythonize() is called at most once in a run.
C13_CompiledListUntilRestoration ==
    /\ Len(cythonize_calls) <= Cardinality(FlaggedRuns)
    /\ Count(trace, "write_ext_modules") + Count(trace, "compile_raised") <= 1
    /\ (should_cythonize /\ pc \in {"InheritedConfig", "Executing", "Restoring"}) =>
        /\ compiled # None
        /\ distribution.ext_modules = compiled
        /\ heap[compiled] = cythonize(FilesOf(MODULES_TO_COMPILE), disk).exts
        /\ CalledInRun

C13_Witness ==
    /\ pc = "Restoring"
    /\ should_cythonize
    /\ compiled # None
    /\ Len(heap[compiled]) >= 2
    /\ pre.vals.ext_modules.items # <<>>

\* selector i is a wildcard and its package holds no module file
ZeroMatch(i) ==
    /\ MODULES_TO_COMPILE[i][3] = "*"
    /\ { f \in disk : f[1] = MODULES_TO_COMPILE[i][1] /\ f[3] # "__init__" } = {}

\* selector i names a single module whose file exists
SingleExists(i) ==
    MODULES_TO_COMPILE[i][3] # "*" =>
        <<MODULES_TO_COMPILE[i][1], "/", MODULES_TO_COMPILE[i][3], ".py">> \in disk

LastCall == cythonize_calls[Len(cythonize_calls)]

FullRun ==
    <<"snapshot", "announce", "write_ext_modules", "config_done", "exec_done", "restore">>

C15_OneMessagePerFlaggedRun ==
    /\ runs >= 1 =>
        Len(Messages(runs)) = IF should_cythonize /\ InRun THEN 1 ELSE 0
    /\ \A i \in 1..Len(log) : log[i].run \in FlaggedRuns /\ log[i].level = "INFO"
    /\ Len(log) <= Cardinality(FlaggedRuns)

C15_Witness ==
    /\ pc = "Done"
    /\ runs = 2
    /\ flags = <<TRUE, FALSE>>
    /\ Len(log) = 1

\* C16: the selector list MODULES_TO_COMPILE has the same entries in the same
\* order in every state: no step of finalize_options() or run() changes it,
\* with the flag true or false.
C16_SelectorListNeverWritten ==
    [][MODULES_TO_COMPILE' = MODULES_TO_COMPILE]_vars

C16_Witness ==
    /\ pc = "Done"
    /\ should_cythonize
    /\ Len(cythonize_calls) >= 1
    /\ MODULES_TO_COMPILE = << <<"pkgA", ".", "mod1">>, <<"pkgB", ".", "*">> >>

\* C17: when run() comes to the write-back the snapshot holds both keys, so
\* no KeyError is raised; a write-back is made only in a run whose snapshot
\* was taken, and a run that passes line 113 makes the write-back exactly
\* when its snapshot was taken.
C17_WriteBackReadsSnapshot ==
    /\ raised # "KeyError"
    /\ (should_cythonize /\ pc \in {"Compiling", "InheritedConfig", "Executing",
                                    "Restoring", "Done"}) =>
            DOMAIN stored_options = FIELDS
    /\ Count(trace, "restore") = 1 => Count(trace, "snapshot") = 1
    /\ pc = "Done" =>
            /\ (Count(trace, "restore") = 1) = (Count(trace, "snapshot") = 1)
            /\ (Count(trace, "restore") = 1) = should_cythonize

C17_Witness ==
    /\ pc = "Done"
    /\ runs = 2
    /\ flags = <<FALSE, TRUE>>
    /\ Count(trace, "restore") = 1
    /\ DOMAIN stored_options = FIELDS

\* C18: between the snapshot and the write-back the step assigns only
\* ext_modules: cmdclass stays the object it was until run() replaces it by
\* the snapshot's copy, whose entries are those of the snapshot time, so an
\* entry the inherited command added in place is gone and one it removed is
\* back after the write-back.
C18_CmdclassAssignedOnlyByWriteBack ==
    should_cythonize =>
        /\ pc \in {"Compiling", "InheritedConfig", "Executing", "Restoring", "Failed"} =>
             distribution.cmdclass = pre.refs.cmdclass
        /\ pc = "Done" =>
             /\ distribution.cmdclass = stored_options["cmdclass"]
             /\ Value(heap, distribution.cmdclass).items = pre.vals.cmdclass.items

C18_Witness ==
    /\ pc = "Done"
    /\ should_cythonize
    /\ pre.vals.cmdclass.items = CMDCLASS
    /\ heap[pre.refs.cmdclass] = << <<"build_ext", "build_ext">> >>
    /\ heap[distribution.cmdclass] = CMDCLASS

\* C19: Cython is in setup_reqs exactly when should_cythonize is true, in
\* every run, also when CYTHONIZE_NLTK changes between line 54 and the
\* construction of the step.
C19_RequirementAgreesWithDecision ==
    runs >= 1 => ((setup_reqs = CYTHON_REQ) = should_cythonize)

====
